---- MODULE Spec2Model ----
(***************************************************************************)
(* Optic Pulse: the /process endpoint (process_request) of opt-pulse/main.py *)
(* and the handlers it dispatches to.                                       *)
(*                                                                          *)
(* A Python dict is a function whose DOMAIN is the set of its keys.        *)
(* Identifiers are numbers: 0 is a falsy identifier (the empty string),    *)
(* 1..MaxUserId are proper ones.  List-valued fields are sequences.        *)
(* Confidence is in percent (100 is 1.0).                                  *)
(*                                                                          *)
(* One request is in flight at a time (a request is processed              *)
(* synchronously end to end); pc is the position inside process_request:   *)
(*   idle -> received -> [classify ->] routed -> returned | except         *)
(*        -> completed | rejected | failed -> idle                          *)
(*                                                                          *)
(* The second half is core/database.py and services/data_engine.py: the    *)
(* CSV files, the DuckDB database of every DataEngine, its loads statement *)
(* by statement, the LazyFrames it makes and their collects.  A file and a *)
(* table are known by their contents (1..MaxContent).  StoreSpec follows   *)
(* one engine, EnginesSpec the engines of concurrent requests.             *)
(*                                                                          *)
(* The third part is the queries of DataEngine and what generate_campaign  *)
(* does with the campaign performance, over a database that holds the      *)
(* tables the queries name: DigestSpec has the transaction digest and      *)
(* ProfileSpec the group profile over contacts and sales, CampaignSpec the *)
(* campaign performance over templates and campaign_metrics.  A rate or an *)
(* average is an exact fraction; a value rounded to two decimals is in     *)
(* hundredths.                                                              *)
(***************************************************************************)
EXTENDS Integers, Sequences, FiniteSets, TLC

\* ------------------------------------------------------------------ bounds
MaxUserId == 1
MaxContactId == 2
\* Distinct contents a CSV file takes, and collects made of one LazyFrame.
MaxContent == 2
MaxCollects == 2
\* Sales ids the sales table may hold.
MaxSales == 2
\* Template ids the templates table may hold, and events of one type a campaign has.
MaxTemplates == 2
MaxEvents == 2

\* --------------------------------------------------------- program constants
HTTP_400_BAD_REQUEST == 400
HTTP_500_INTERNAL_SERVER_ERROR == 500
ExplicitConfidence == 100
\* df.sort("success_rate", descending=True).head(10)
LeaderboardSize == 10

DefaultQuery == "Generate a vibe report for this customer"
ExplicitReasoning == "Agent type explicitly specified by frontend"

\* The route labels process_request has a branch for.
KnownAgents == {"vibe_report", "brand_voice", "smart_receipt"}

\* ------------------------------------------------------------ input domains
\* Route labels a caller or the classifier may name; one is not a known route.
AgentTypes == KnownAgents \cup {"loyalty_report"}
UserIds == 0..MaxUserId
ContactLists == {<<i>> : i \in 1..MaxContactId}
CampaignTexts == {<<"Hey VIP!">>}
Baskets == {<<"coffee", "milk">>}
Queries == {"What should I recommend?"}
\* Confidence the classifier reports (TriageOutput.confidence, 0..1), in percent.
Confidences == {40, 100}

ParamKeys == {"user_id", "contact_ids", "campaign_texts", "current_basket_items"}
RequestKeys == {"agent_type", "query"} \cup ParamKeys

\* ------------------------------------------------------------------- dicts
EmptyDict == <<>>
Has(d, k) == k \in DOMAIN d
Put(d, k, v) == [x \in (DOMAIN d) \cup {k} |-> IF x = k THEN v ELSE d[x]]
Restrict(d, ks) == [x \in (DOMAIN d) \cap ks |-> d[x]]
\* Python truthiness of an identifier: None, "" and 0 are falsy.
Falsy(v) == v = 0

\* Every dict over the keys ks drawn from the input domains.
DictsOver(ks) ==
    {Restrict([agent_type |-> a, query |-> q, user_id |-> u, contact_ids |-> c,
               campaign_texts |-> t, current_basket_items |-> b], D) :
        a \in AgentTypes, q \in Queries, u \in UserIds, c \in ContactLists,
        t \in CampaignTexts, b \in Baskets, D \in SUBSET ks}

Requests == DictsOver(RequestKeys)
ExtractedParams == DictsOver(ParamKeys)

\* What TriageAgent.classify_request returns when the chain answers.
TriageResults ==
    [agent_type : AgentTypes, extracted_params : ExtractedParams,
     confidence : Confidences, reasoning : {"classified by the language model"}]

NoTriage ==
    [agent_type |-> "", extracted_params |-> EmptyDict, confidence |-> 0, reasoning |-> ""]

\* --------------------------------------------------- collaborators' outcomes
\* data_engine.<query>(...).collect(): raises, or yields no row, or rows.
FetchOutcomes == {"raises", "empty", "rows"}
\* chain.invoke(...) and the parsing of its output: a usable answer, an error
\* of the capability, or a malformed answer (a ValueError subclass).
LlmOutcomes == {"ok", "raises", "value_error"}
\* Exception classes as the except clauses of process_request tell them apart.
ClassifierErrors == {"ValueError", "Exception"}

\* One call of an external capability and how it ended.
Call(to, outcome) == [to |-> to, outcome |-> outcome]
Fetched(fetch) == Call("data_engine", fetch)
Generated(llm) == Call("llm", llm)

Returned(result, made) == [raised |-> "none", result |-> result, calls |-> made]
Raised(e, made) == [raised |-> e, result |-> EmptyDict, calls |-> made]

\* -------------------------------------------------------------- handlers
\* VibeAgent.process: params["user_id"] is a plain subscript; every later
\* failure is swallowed by a bare except.  (data_engine is a parameter; the
\* DataEngine of this repository defines no get_transaction_history, so with it
\* the fetch is the "raises" outcome.)
VibeProcess(params, fetch, llm) ==
    IF ~Has(params, "user_id")
    THEN Raised("KeyError", <<>>)
    ELSE IF fetch = "raises"
    THEN Returned([error |-> "DB Error"], <<Fetched(fetch)>>)
    ELSE Returned(
            [user_id |-> params["user_id"],
             raw_stats |-> IF fetch = "empty"
                           THEN [total_spend |-> 0, total_items |-> 0, top_day |-> "Unknown"]
                           ELSE [total_spend |-> 2792, total_items |-> 36, top_day |-> "Tuesday"],
             ai_content |-> IF llm = "ok" THEN "generated" ELSE "The Ghost Shopper"],
            <<Fetched(fetch), Generated(llm)>>)

\* SmartReceiptAgent.process: params.get for both keys, a falsy user_id is a
\* ValueError, a missing basket defaults to the empty list.
SmartReceiptProcess(params, fetch, llm) ==
    LET basket == IF Has(params, "current_basket_items")
                  THEN params["current_basket_items"] ELSE <<>>
    IN  IF ~Has(params, "user_id") \/ Falsy(params["user_id"])
        THEN Raised("ValueError", <<>>)
        ELSE IF fetch = "raises"
        THEN Raised("Exception", <<Fetched(fetch)>>)
        ELSE IF llm = "raises"
        THEN Raised("Exception", <<Fetched(fetch), Generated(llm)>>)
        ELSE IF llm = "value_error"
        THEN Raised("ValueError", <<Fetched(fetch), Generated(llm)>>)
        ELSE Returned(
                [user_id |-> params["user_id"],
                 next_best_item |-> "recommended",
                 basket_items_count |-> Len(basket)],
                <<Fetched(fetch), Generated(llm)>>)

\* BrandVoiceAgent is a pydantic model with three fields and no process
\* method: brand_voice_agent.process is an AttributeError.
BrandVoiceProcess(params) == Raised("AttributeError", <<>>)

\* ------------------------------------------------------------ process_request
VARIABLES
    pc,               \* position inside process_request
    raw,              \* the request as the caller sent it
    request,          \* the request dict (process_request may add a query to it)
    triage_result,    \* the routing decision
    agent_type,       \* the route label read from the routing decision
    extracted_params, \* the dict handed to the handler
    triage_confidence,
    invoked,          \* the route whose handler call was made, "none" before
    calls,            \* the external capabilities called, in order
    result,           \* what the handler returned
    raised,           \* the exception class that left the try body, "none" if none
    response          \* what the endpoint answers

\* The capabilities called so far in this request.
Called == {calls[i].to : i \in DOMAIN calls}
\* Those whose call raised.
FailedCalls == {calls[i].to : i \in {j \in DOMAIN calls : calls[j].outcome = "raises"}}

dispatcherVars == <<pc, raw, request, triage_result, agent_type, extracted_params,
                    triage_confidence, invoked, calls, result, raised, response>>

\* ------------------------------------------------- the store and its engines
VARIABLES
    files,            \* the CSV files of the data directory: 0 missing, else its contents
    ph,               \* where each DataEngine's thread is
    reloading,        \* the load in progress was started after construction
    duckdb_conn,      \* the database each DataEngine's connection is to
    tables,           \* the tables of each database
    before,           \* the tables of the engine's database when its last load began
    outcome,          \* how the engine's last load ended
    plan,             \* the LazyFrame the engine last built
    collected         \* what the collects of that LazyFrame returned, in order

storeVars == <<files, ph, reloading, duckdb_conn, tables, before, outcome, plan, collected>>

\* ------------------------------------------- the tables the queries read
VARIABLES
    contacts,         \* table contacts: the segment of each customer id it holds
    sales,            \* table sales: the row of each sales id it holds
    sku,              \* table sku: the item ids of the catalog
    templates,        \* table templates: the template ids it holds
    campaign_metrics, \* table campaign_metrics: how many events of each type each campaign has
    answer            \* what the last query of the engine returned or raised

queryVars == <<contacts, sales, sku, templates, campaign_metrics, answer>>

vars == <<dispatcherVars, storeVars, queryVars>>

NoAnswer == [kind |-> "none"]

\* No query is made while the endpoint or the store is looked at.
NoQueries ==
    /\ contacts = <<>>
    /\ sales = <<>>
    /\ sku = {}
    /\ templates = {}
    /\ campaign_metrics = <<>>
    /\ answer = NoAnswer

Terminal == {"completed", "rejected", "failed"}

ExplicitTriage_NoConfidence(req) ==
    [agent_type |-> req["agent_type"],
     extracted_params |-> Restrict(req, (DOMAIN req) \ {"agent_type"}),
     confidence |-> 0,
     reasoning |-> ExplicitReasoning]

\* The routing decision of a request that names its agent_type.
ExplicitTriage(req) ==
    [agent_type |-> req["agent_type"],
     extracted_params |-> Restrict(req, (DOMAIN req) \ {"agent_type"}),
     confidence |-> ExplicitConfidence,
     reasoning |-> ExplicitReasoning]

\* A fallback that gives every request the default query.
WithDefaultQuery_Always(req) == Put(req, "query", DefaultQuery)

\* The fallback: a request with a user_id and no query gets the default query.
WithDefaultQuery(req) ==
    IF ~Has(req, "query") /\ Has(req, "user_id")
    THEN Put(req, "query", DefaultQuery)
    ELSE req

MergeUserId_Dropped(req, params) == params

MergeUserId_AllFields(req, params) ==
    [k \in (DOMAIN params) \cup ((DOMAIN req) \ {"agent_type"}) |->
        IF Has(params, k) THEN params[k] ELSE req[k]]

\* "Ensure user_id is never lost".
MergeUserId(req, params) ==
    IF Has(req, "user_id") /\ ~Has(params, "user_id")
    THEN Put(params, "user_id", req["user_id"])
    ELSE params

\* The brand_voice branch: extracted_params["contact_ids"] = request["contact_ids"],
\* then the handler call.
BrandVoiceBranch(req, params) ==
    IF ~Has(req, "contact_ids")
    THEN [params |-> params, invoked |-> "none", out |-> Raised("KeyError", <<>>)]
    ELSE LET p == Put(params, "contact_ids", req["contact_ids"])
         IN  [params |-> p, invoked |-> "brand_voice", out |-> BrandVoiceProcess(p)]

\* A branch on agent_type whose else arm runs the vibe handler.
Route_ElseVibe(agent, req, params, fetch, llm) ==
    IF agent = "brand_voice"
    THEN BrandVoiceBranch(req, params)
    ELSE IF agent = "smart_receipt"
    THEN [params |-> params, invoked |-> "smart_receipt",
          out |-> SmartReceiptProcess(params, fetch, llm)]
    ELSE [params |-> params, invoked |-> "vibe_report",
          out |-> VibeProcess(params, fetch, llm)]

\* A branch on agent_type whose smart_receipt arm calls the vibe handler.
Route_ReceiptCallsVibe(agent, req, params, fetch, llm) ==
    IF agent = "vibe_report" \/ agent = "smart_receipt"
    THEN [params |-> params, invoked |-> "vibe_report",
          out |-> VibeProcess(params, fetch, llm)]
    ELSE IF agent = "brand_voice"
    THEN BrandVoiceBranch(req, params)
    ELSE [params |-> params, invoked |-> "none", out |-> Raised("ValueError", <<>>)]

\* Step 2 of process_request: the branch on agent_type.
Route(agent, req, params, fetch, llm) ==
    IF agent = "vibe_report"
    THEN [params |-> params, invoked |-> "vibe_report",
          out |-> VibeProcess(params, fetch, llm)]
    ELSE IF agent = "brand_voice"
    THEN BrandVoiceBranch(req, params)
    ELSE IF agent = "smart_receipt"
    THEN [params |-> params, invoked |-> "smart_receipt",
          out |-> SmartReceiptProcess(params, fetch, llm)]
    ELSE [params |-> params, invoked |-> "none", out |-> Raised("ValueError", <<>>)]

StatusOf_AlwaysServerError(e) == HTTP_500_INTERNAL_SERVER_ERROR

\* The except clauses: ValueError is a 400, every other exception a 500.
StatusOf(e) ==
    IF e = "ValueError" THEN HTTP_400_BAD_REQUEST ELSE HTTP_500_INTERNAL_SERVER_ERROR

SuccessResponse(agent, res, conf) ==
    [success |-> TRUE, agent_type |-> agent, result |-> res, triage_confidence |-> conf]

\* http_exception_handler.
FailureResponse(e) ==
    [success |-> FALSE, error |-> e, status_code |-> StatusOf(e)]

DispatcherInit ==
    /\ pc = "idle"
    /\ raw = EmptyDict
    /\ request = EmptyDict
    /\ triage_result = NoTriage
    /\ agent_type = ""
    /\ extracted_params = EmptyDict
    /\ triage_confidence = 0
    /\ invoked = "none"
    /\ calls = <<>>
    /\ result = EmptyDict
    /\ raised = "none"
    /\ response = EmptyDict

\* A request arrives at POST /process.
Receive(req) ==
    /\ pc = "idle"
    /\ pc' = "received"
    /\ raw' = req
    /\ request' = req
    /\ UNCHANGED <<triage_result, agent_type, extracted_params, triage_confidence,
                   invoked, calls, result, raised, response>>
    /\ UNCHANGED <<storeVars, queryVars>>

\* An explicit agent_type skips triage.
NormalizeExplicit ==
    /\ pc = "received"
    /\ Has(request, "agent_type")
    /\ triage_result' = ExplicitTriage(request)
    /\ pc' = "routed"
    /\ UNCHANGED <<raw, request, agent_type, extracted_params, triage_confidence,
                   invoked, calls, result, raised, response>>
    /\ UNCHANGED <<storeVars, queryVars>>

\* Otherwise the fallback query is added and the classifier is about to be called.
NormalizeFallback ==
    /\ pc = "received"
    /\ ~Has(request, "agent_type")
    /\ request' = WithDefaultQuery(request)
    /\ pc' = "classify"
    /\ UNCHANGED <<raw, triage_result, agent_type, extracted_params, triage_confidence,
                   invoked, calls, result, raised, response>>
    /\ UNCHANGED <<storeVars, queryVars>>

\* triage_agent.classify_request(request) returns a decision.
ClassifyReturns(tr) ==
    /\ pc = "classify"
    /\ calls' = Append(calls, Call("classifier", "returns"))
    /\ triage_result' = tr
    /\ pc' = "routed"
    /\ UNCHANGED <<raw, request, agent_type, extracted_params, triage_confidence,
                   invoked, result, raised, response>>
    /\ UNCHANGED <<storeVars, queryVars>>

\* A classifier that is called again after its first failure.
ClassifyRaises_Retry(e) ==
    /\ pc = "classify"
    /\ calls' = Append(calls, Call("classifier", "raises"))
    /\ raised' = IF calls = <<>> THEN raised ELSE e
    /\ pc' = IF calls = <<>> THEN "classify" ELSE "except"
    /\ UNCHANGED <<raw, request, triage_result, agent_type, extracted_params,
                   triage_confidence, invoked, result, response>>
    /\ UNCHANGED <<storeVars, queryVars>>

\* triage_agent.classify_request(request) raises (it re-raises whatever it caught).
ClassifyRaises(e) ==
    /\ pc = "classify"
    /\ calls' = Append(calls, Call("classifier", "raises"))
    /\ raised' = e
    /\ pc' = "except"
    /\ UNCHANGED <<raw, request, triage_result, agent_type, extracted_params,
                   triage_confidence, invoked, result, response>>
    /\ UNCHANGED <<storeVars, queryVars>>

\* The call of the handler's process method that the branch of the route makes,
\* if it makes one, followed in calls by the calls that handler made.
HandlerCall(r) ==
    IF r.invoked = "none" THEN <<>>
    ELSE <<Call(r.invoked, IF r.out.raised = "none" THEN "returns" ELSE "raises")>>

\* The decision is read, user_id is merged, and the branch of the route runs.
Dispatch(fetch, llm) ==
    /\ pc = "routed"
    /\ LET r == Route(triage_result.agent_type, request,
                      MergeUserId(request, triage_result.extracted_params), fetch, llm)
       IN  /\ agent_type' = triage_result.agent_type
           /\ triage_confidence' = triage_result.confidence
           /\ extracted_params' = r.params
           /\ invoked' = r.invoked
           /\ calls' = calls \o HandlerCall(r) \o r.out.calls
           /\ result' = r.out.result
           /\ raised' = r.out.raised
           /\ pc' = IF r.out.raised = "none" THEN "returned" ELSE "except"
    /\ UNCHANGED <<raw, request, triage_result, response>>
    /\ UNCHANGED <<storeVars, queryVars>>

\* Step 3: the unified response.
Respond ==
    /\ pc = "returned"
    /\ response' = SuccessResponse(agent_type, result, triage_confidence)
    /\ pc' = "completed"
    /\ UNCHANGED <<raw, request, triage_result, agent_type, extracted_params,
                   triage_confidence, invoked, calls, result, raised>>
    /\ UNCHANGED <<storeVars, queryVars>>

\* An except clause that sends a failed handler's request back to the branch
\* of the route instead of answering.
Fail_Redispatch ==
    /\ pc = "except"
    /\ response' = FailureResponse(raised)
    /\ pc' = IF StatusOf(raised) = HTTP_400_BAD_REQUEST THEN "rejected"
             ELSE IF invoked # "none" /\ Len(calls) <= 3 THEN "routed"
             ELSE "failed"
    /\ UNCHANGED <<raw, request, triage_result, agent_type, extracted_params,
                   triage_confidence, invoked, calls, result, raised>>
    /\ UNCHANGED <<storeVars, queryVars>>

\* Exception handling with the `except Exception` clause left out.
Fail_OnlyValueError ==
    /\ pc = "except"
    /\ raised = "ValueError"
    /\ response' = FailureResponse(raised)
    /\ pc' = "rejected"
    /\ UNCHANGED <<raw, request, triage_result, agent_type, extracted_params,
                   triage_confidence, invoked, calls, result, raised>>
    /\ UNCHANGED <<storeVars, queryVars>>

\* The except clauses and the HTTPException handler.
Fail ==
    /\ pc = "except"
    /\ response' = FailureResponse(raised)
    /\ pc' = IF StatusOf(raised) = HTTP_400_BAD_REQUEST THEN "rejected" ELSE "failed"
    /\ UNCHANGED <<raw, request, triage_result, agent_type, extracted_params,
                   triage_confidence, invoked, calls, result, raised>>
    /\ UNCHANGED <<storeVars, queryVars>>

\* The response has gone to the transport; the locals of the call are gone and
\* the endpoint waits for the next request.
Return ==
    /\ pc \in Terminal
    /\ pc' = "idle"
    /\ raw' = EmptyDict
    /\ request' = EmptyDict
    /\ triage_result' = NoTriage
    /\ agent_type' = ""
    /\ extracted_params' = EmptyDict
    /\ triage_confidence' = 0
    /\ invoked' = "none"
    /\ calls' = <<>>
    /\ result' = EmptyDict
    /\ raised' = "none"
    /\ response' = EmptyDict
    /\ UNCHANGED <<storeVars, queryVars>>

\* ============================================ core/database.py and DataEngine
\* The DataEngine instances; every request constructs its own (get_data_engine).
Engines == {"a", "b"}
\* The CSV files load_csvs_to_duckdb reads, and the tables it creates of them.
CsvNames == {"transactions", "customers"}
\* The tables DataEngine's own queries read.
QueriedTables ==
    {"sales", "contacts", "sku", "campaign_metrics", "templates", "contacts_loyalty"}
\* The tables a query may name.
TableNames == CsvNames \cup QueriedTables

\* A file that does not exist; otherwise a file is known by its contents.
Missing == 0
Contents == 1..MaxContent
FileStates == {Missing} \cup Contents
\* A table name with no table, and one whose CREATE OR REPLACE TABLE ... AS is
\* under way.  DuckDB's own statement is given no credit for being atomic:
\* between its start and its end the name shows a half-built table.
Unbound == 0
Half == -1
TableStates == {Unbound, Half} \cup Contents
NoTables == [t \in TableNames |-> Unbound]

Phases == {"new", "check", "transactions", "building_transactions",
           "customers", "building_customers", "ready", "dead"}
Building(t) == IF t = "transactions" THEN "building_transactions" ELSE "building_customers"
\* The engine's thread is between two calls.
AtRest(e) == ph[e] \in {"new", "ready", "dead"}

\* A LazyFrame: the Arrow table it was made of (the rows the SQL query
\* returned), and whether frame operations (join, with_columns) are pending on
\* it.  overlap notes that another engine was building a table of the same
\* name when the query ran.
NoPlan == [source |-> "", arrow |-> Unbound, pending |-> FALSE, overlap |-> FALSE]
Plans == [source : TableNames, arrow : TableStates, pending : BOOLEAN, overlap : BOOLEAN]

\* One database for every engine.
GetDuckdbConnection_Shared(e) == "a"

\* get_duckdb_connection: every call opens a new in-memory database, named
\* here after the engine that opened it.
GetDuckdbConnection(e) == e

\* An existence test that looks at the first file alone.
SourcesExist_FirstOnly(f) == f["transactions"] # Missing

\* The os.path.exists test of load_csvs_to_duckdb.
SourcesExist(f) == f["transactions"] # Missing /\ f["customers"] # Missing

\* A frame that can be collected once.
CollectRows_Drained(db, p, n) == IF n = 0 THEN p.arrow ELSE Unbound

\* A frame that runs its query when it is collected.
CollectRows_Requery(db, p, n) == tables[db][p.source]

\* LazyFrame.collect: the rows of the frame's own Arrow table, whatever
\* database db holds by now and whichever collect of the frame this is (n
\* collects came before).
CollectRows(db, p, n) == p.arrow

\* A query that is only noted when the frame is made.
ExecuteQuery_Deferred(db, t) == Unbound

\* duckdb_conn.execute(sql_query).arrow(): the rows of the table the query
\* names, as they are in the database when the statement runs.
ExecuteQuery(db, t) == tables[db][t]

StoreInit ==
    /\ files \in [CsvNames -> FileStates]
    /\ ph = [e \in Engines |-> "new"]
    /\ reloading = [e \in Engines |-> FALSE]
    /\ duckdb_conn = [e \in Engines |-> e]
    /\ tables = [e \in Engines |-> NoTables]
    /\ before = [e \in Engines |-> NoTables]
    /\ outcome = [e \in Engines |-> "none"]
    /\ plan = [e \in Engines |-> NoPlan]
    /\ collected = [e \in Engines |-> <<>>]

\* DataEngine.__init__ opens its connection and calls load_csvs_to_duckdb.
Construct(e) ==
    /\ ph[e] = "new"
    /\ duckdb_conn' = [duckdb_conn EXCEPT ![e] = GetDuckdbConnection(e)]
    /\ before' = [before EXCEPT ![e] = tables[GetDuckdbConnection(e)]]
    /\ ph' = [ph EXCEPT ![e] = "check"]
    /\ UNCHANGED <<files, reloading, tables, outcome, plan, collected>>
    /\ UNCHANGED <<dispatcherVars, queryVars>>

\* load_csvs_to_duckdb is called again on the connection of a constructed engine.
Reload(e) ==
    /\ ph[e] = "ready"
    /\ before' = [before EXCEPT ![e] = tables[duckdb_conn[e]]]
    /\ reloading' = [reloading EXCEPT ![e] = TRUE]
    /\ outcome' = [outcome EXCEPT ![e] = "none"]
    /\ ph' = [ph EXCEPT ![e] = "check"]
    /\ UNCHANGED <<files, duckdb_conn, tables, plan, collected>>
    /\ UNCHANGED <<dispatcherVars, queryVars>>

\* The load raises: a constructor's load leaves no engine, a later one leaves
\* the engine as it was.
LoadRaises(e) ==
    /\ ph' = [ph EXCEPT ![e] = IF reloading[e] THEN "ready" ELSE "dead"]
    /\ reloading' = [reloading EXCEPT ![e] = FALSE]
    /\ outcome' = [outcome EXCEPT ![e] = "failed"]

\* The existence test, before any statement.
LoadCheck(e) ==
    /\ ph[e] = "check"
    /\ IF SourcesExist(files)
       THEN /\ ph' = [ph EXCEPT ![e] = "transactions"]
            /\ UNCHANGED <<reloading, outcome>>
       ELSE LoadRaises(e)
    /\ UNCHANGED <<files, duckdb_conn, tables, before, plan, collected>>
    /\ UNCHANGED <<dispatcherVars, queryVars>>

\* CREATE OR REPLACE TABLE t AS SELECT * FROM read_csv_auto(file) starts.
CreateBegin(e) ==
    /\ ph[e] \in CsvNames
    /\ IF files[ph[e]] = Missing
       THEN /\ LoadRaises(e)
            /\ UNCHANGED tables
       ELSE /\ tables' = [tables EXCEPT ![duckdb_conn[e]][ph[e]] = Half]
            /\ ph' = [ph EXCEPT ![e] = Building(ph[e])]
            /\ UNCHANGED <<reloading, outcome>>
    /\ UNCHANGED <<files, duckdb_conn, before, plan, collected>>
    /\ UNCHANGED <<dispatcherVars, queryVars>>

\* The statement ends: the name is bound to the file's contents.  After the
\* second one load_csvs_to_duckdb returns.
CreateEnd(e) ==
    /\ \E t \in CsvNames :
         /\ ph[e] = Building(t)
         /\ tables' = [tables EXCEPT ![duckdb_conn[e]][t] = files[t]]
         /\ IF t = "transactions"
            THEN /\ ph' = [ph EXCEPT ![e] = "customers"]
                 /\ UNCHANGED <<reloading, outcome>>
            ELSE /\ ph' = [ph EXCEPT ![e] = "ready"]
                 /\ reloading' = [reloading EXCEPT ![e] = FALSE]
                 /\ outcome' = [outcome EXCEPT ![e] = "loaded"]
    /\ UNCHANGED <<files, duckdb_conn, before, plan, collected>>
    /\ UNCHANGED <<dispatcherVars, queryVars>>

\* DataEngine._execute_duckdb_query with a query over table t: the statement
\* runs and its rows are fetched now; a name with no table raises and the
\* caller gets no frame.
ExecuteDuckdbQuery(e, t) ==
    /\ ph[e] = "ready"
    /\ LET rows == ExecuteQuery(duckdb_conn[e], t)
       IN  /\ tables[duckdb_conn[e]][t] # Unbound
           /\ plan' = [plan EXCEPT ![e] =
                         [source |-> t, arrow |-> rows, pending |-> FALSE,
                          overlap |-> \E o \in Engines \ {e} : ph[o] = Building(t)]]
           /\ collected' = [collected EXCEPT ![e] = <<>>]
    /\ UNCHANGED <<files, ph, reloading, duckdb_conn, tables, before, outcome>>
    /\ UNCHANGED <<dispatcherVars, queryVars>>

\* The same over a name that has no table: DuckDB raises, no frame is made.
ExecuteDuckdbQueryRaises(e, t) ==
    /\ ph[e] = "ready"
    /\ tables[duckdb_conn[e]][t] = Unbound
    /\ plan' = [plan EXCEPT ![e] = NoPlan]
    /\ collected' = [collected EXCEPT ![e] = <<>>]
    /\ UNCHANGED <<files, ph, reloading, duckdb_conn, tables, before, outcome>>
    /\ UNCHANGED <<dispatcherVars, queryVars>>

\* get_user_analytics_pipeline adds a join and two derived columns to the
\* frame; nothing is computed.
WithColumns(e) ==
    /\ ph[e] = "ready"
    /\ plan[e] # NoPlan
    /\ ~plan[e].pending
    /\ collected[e] = <<>>
    /\ plan' = [plan EXCEPT ![e].pending = TRUE]
    /\ UNCHANGED <<files, ph, reloading, duckdb_conn, tables, before, outcome, collected>>
    /\ UNCHANGED <<dispatcherVars, queryVars>>

\* LazyFrame.collect: the rows, with the pending frame operations applied.
\* Each result is noted with what the source table held at that moment.
Collect(e) ==
    /\ ph[e] = "ready"
    /\ plan[e] # NoPlan
    /\ Len(collected[e]) < MaxCollects
    /\ collected' = [collected EXCEPT ![e] =
                       Append(@, [rows |-> CollectRows(duckdb_conn[e], plan[e], Len(@)),
                                  derived |-> plan[e].pending,
                                  store |-> tables[duckdb_conn[e]][plan[e].source]])]
    /\ UNCHANGED <<files, ph, reloading, duckdb_conn, tables, before, outcome, plan>>
    /\ UNCHANGED <<dispatcherVars, queryVars>>

\* A file of the data directory is written, removed or put back while no load
\* is running.
ChangeFile(n, v) ==
    /\ \A e \in Engines : AtRest(e)
    /\ files[n] # v
    /\ files' = [files EXCEPT ![n] = v]
    /\ UNCHANGED <<ph, reloading, duckdb_conn, tables, before, outcome, plan, collected>>
    /\ UNCHANGED <<dispatcherVars, queryVars>>

\* No request is in flight and no engine has been constructed.
StoreStart ==
    /\ DispatcherInit
    /\ StoreInit
    /\ NoQueries

\* One engine by itself, from its construction on: loads, queries, collects,
\* and the data directory changing between them.
StoreNext ==
    \/ Construct("a")
    \/ Reload("a")
    \/ LoadCheck("a")
    \/ CreateBegin("a")
    \/ CreateEnd("a")
    \/ \E t \in TableNames : ExecuteDuckdbQuery("a", t)
    \/ \E t \in TableNames : ExecuteDuckdbQueryRaises("a", t)
    \/ WithColumns("a")
    \/ Collect("a")
    \/ \E n \in CsvNames, v \in FileStates : ChangeFile(n, v)

StoreSpec == StoreStart /\ [][StoreNext]_vars

\* The engines of concurrent requests, each in its own thread: their loads and
\* their queries interleave statement by statement.
EnginesNext ==
    \/ \E e \in Engines : Construct(e)
    \/ \E e \in Engines : Reload(e)
    \/ \E e \in Engines : LoadCheck(e)
    \/ \E e \in Engines : CreateBegin(e)
    \/ \E e \in Engines : CreateEnd(e)
    \/ \E e \in Engines, t \in TableNames : ExecuteDuckdbQuery(e, t)
    \/ \E e \in Engines, t \in TableNames : ExecuteDuckdbQueryRaises(e, t)

EnginesSpec == StoreStart /\ [][EnginesNext]_vars

\* ======================================================= DataEngine's queries
\* The queries are looked at over a database that holds the tables they name.
\* A table is a function from its key to the rest of the row; a column that
\* is NULL holds Null (numbers) or NullText (text).
Null == 0
NullText == "NULL"

Cids == 1..MaxContactId
SalesIds == 1..MaxSales
\* Item ids the sales rows name, and the ones the catalog has an entry for.
Items == {1, 2}
CatalogItems == {1}
Quantities == {1, 2}
Prices == {10}
Discounts == {3}
\* gender, city and loyalty_customer of a contact, taken together.
Segments == {"F", "M"}

SalesRows == [cid : Cids, item_sid : Items, quantity : Quantities,
              sales_price : Prices, discount : Discounts]

TablesOver(Keys, Rows) == UNION {[D -> Rows] : D \in SUBSET Keys}

\* SELECT ... FROM sales s INNER JOIN sku p: what get_enriched_sales would
\* return if the join dropped the rows without a catalog entry.
GetEnrichedSales_InnerJoin(cid) ==
    { [sales_id |-> i, cid |-> sales[i].cid, quantity |-> sales[i].quantity,
       sales_price |-> sales[i].sales_price, discount |-> sales[i].discount,
       description |-> sales[i].item_sid]
      : i \in {j \in DOMAIN sales : sales[j].cid = cid /\ sales[j].item_sid \in sku} }

\* get_enriched_sales: FROM sales s LEFT JOIN sku p ON s.item_sid = p.item_sid
\* WHERE s.cid = cid.
GetEnrichedSales(cid) ==
    { [sales_id |-> i, cid |-> sales[i].cid, quantity |-> sales[i].quantity,
       sales_price |-> sales[i].sales_price, discount |-> sales[i].discount,
       description |-> IF sales[i].item_sid \in sku THEN sales[i].item_sid ELSE Null]
      : i \in {j \in DOMAIN sales : sales[j].cid = cid} }

\* get_customer_profile: FROM contacts WHERE cid = cid.
GetCustomerProfile(cid) ==
    { [cid |-> c, gender |-> contacts[c]] : c \in (DOMAIN contacts) \cap {cid} }

\* sales.join(customer, on="cid", how="inner"): only the rows with a customer.
JoinCustomer_Inner(rows, customer) ==
    { [sales_id |-> r.sales_id, cid |-> r.cid, quantity |-> r.quantity,
       sales_price |-> r.sales_price, discount |-> r.discount,
       description |-> r.description, gender |-> k.gender]
      : <<r, k>> \in {p \in rows \X customer : p[1].cid = p[2].cid} }

\* sales.join(customer, on="cid", how="left"): every sales row, with the
\* customer's columns, NULL where no customer row has its cid.
JoinCustomer(rows, customer) ==
    JoinCustomer_Inner(rows, customer) \cup
    { [sales_id |-> r.sales_id, cid |-> r.cid, quantity |-> r.quantity,
       sales_price |-> r.sales_price, discount |-> r.discount,
       description |-> r.description, gender |-> NullText]
      : r \in {q \in rows : \A k \in customer : k.cid # q.cid} }

\* .with_columns(quantity * sales_price AS gross_spend,
\*               quantity * discount AS discount_value)
WithDerived(rows) ==
    { [sales_id |-> r.sales_id, cid |-> r.cid, quantity |-> r.quantity,
       sales_price |-> r.sales_price, discount |-> r.discount,
       description |-> r.description, gender |-> r.gender,
       gross_spend |-> r.quantity * r.sales_price,
       discount_value |-> r.quantity * r.discount]
      : r \in rows }

\* get_user_analytics_pipeline(cid), collected.
UserAnalyticsPipeline(cid) ==
    WithDerived(JoinCustomer(GetEnrichedSales(cid), GetCustomerProfile(cid)))

GetUserAnalyticsPipeline(cid) ==
    /\ answer' = [kind |-> "digest", cid |-> cid, rows |-> UserAnalyticsPipeline(cid)]
    /\ UNCHANGED <<contacts, sales, sku, templates, campaign_metrics>>
    /\ UNCHANGED <<dispatcherVars, storeVars>>

\* A range that left its two ends out.
InRange_Exclusive(c, lo, hi) == lo < c /\ c < hi

\* c.cid BETWEEN cid_start AND cid_end
InRange(c, lo, hi) == lo <= c /\ c <= hi

\* The contacts of the range that fall in one group of GROUP BY c.gender,
\* c.city, c.loyalty_customer.
Members(g, lo, hi) ==
    {c \in DOMAIN contacts : InRange(c, lo, hi) /\ contacts[c] = g}

SalesOf(C) == {i \in DOMAIN sales : sales[i].cid \in C}

RECURSIVE SumSpend(_)
\* SUM(s.quantity * s.sales_price) over sales rows.
SumSpend(I) ==
    IF I = {} THEN 0
    ELSE LET i == CHOOSE j \in I : TRUE
         IN  sales[i].quantity * sales[i].sales_price + SumSpend(I \ {i})

\* The result of the group query: for each group the rows contacts LEFT JOIN
\* sales gives its members, one for each sales row of a member and one, with
\* the sales columns NULL, for a member without any.  COUNT(*) counts them
\* all; AVG leaves the NULLs out and is NULL (spend_rows = 0) over NULLs only.
GroupRows(lo, hi) ==
    { [gender |-> g,
       user_count |-> Cardinality(SalesOf(Members(g, lo, hi)))
                      + Cardinality({c \in Members(g, lo, hi) : SalesOf({c}) = {}}),
       spend_sum |-> SumSpend(SalesOf(Members(g, lo, hi))),
       spend_rows |-> Cardinality(SalesOf(Members(g, lo, hi)))]
      : g \in {h \in Segments : Members(h, lo, hi) # {}} }

RECURSIVE SumUserCount(_)
\* df["user_count"].sum()
SumUserCount(df) ==
    IF df = {} THEN 0
    ELSE LET r == CHOOSE q \in df : TRUE
         IN  r.user_count + SumUserCount(df \ {r})

RECURSIVE SumAvgSpend(_)
\* The sum of the groups' avg_spend, as a fraction.
SumAvgSpend(df) ==
    IF df = {} THEN [num |-> 0, den |-> 1]
    ELSE LET r == CHOOSE q \in df : TRUE
             rest == SumAvgSpend(df \ {r})
         IN  [num |-> r.spend_sum * rest.den + rest.num * r.spend_rows,
              den |-> r.spend_rows * rest.den]

\* round(x, 2) of the fraction num/den, in hundredths.
Round2(num, den) == (200 * num + den) \div (2 * den)

\* round(df["avg_spend"].mean(), 2): the mean leaves the NULL averages out.
MeanAvgSpend(df) ==
    LET priced == {r \in df : r.spend_rows > 0}
        total == SumAvgSpend(priced)
    IN  Round2(total.num, total.den * Cardinality(priced))

\* get_user_group_profile(cid_start, cid_end)
UserGroupProfile(lo, hi) ==
    LET df == GroupRows(lo, hi)
    IN  IF df = {}
        THEN [kind |-> "error", error |-> "RuntimeError", cid_start |-> lo, cid_end |-> hi]
        ELSE IF \A r \in df : r.spend_rows = 0
        THEN [kind |-> "error", error |-> "TypeError", cid_start |-> lo, cid_end |-> hi]
        ELSE [kind |-> "profile", cid_start |-> lo, cid_end |-> hi,
              total_users |-> SumUserCount(df),
              gender_distribution |-> [g \in {r.gender : r \in df} |->
                                          (CHOOSE r \in df : r.gender = g).user_count],
              avg_spend |-> MeanAvgSpend(df)]

GetUserGroupProfile(cid_start, cid_end) ==
    /\ answer' = UserGroupProfile(cid_start, cid_end)
    /\ UNCHANGED <<contacts, sales, sku, templates, campaign_metrics>>
    /\ UNCHANGED <<dispatcherVars, storeVars>>

\* The engine's tables before the transaction digest is asked for: contacts,
\* sales and the catalog.
DigestInit ==
    /\ DispatcherInit
    /\ StoreInit
    /\ files = [n \in CsvNames |-> Missing]
    /\ contacts \in TablesOver(Cids, Segments)
    /\ sales \in TablesOver(SalesIds, SalesRows)
    /\ sku = CatalogItems
    /\ templates = {}
    /\ campaign_metrics = <<>>
    /\ answer = NoAnswer

DigestNext == \E cid \in Cids : GetUserAnalyticsPipeline(cid)

DigestSpec == DigestInit /\ [][DigestNext]_vars

\* The engine's tables before the group profile is asked for.  The profile
\* reads no column of the catalog: every item sold is taken from it.
ProfileInit ==
    /\ DispatcherInit
    /\ StoreInit
    /\ files = [n \in CsvNames |-> Missing]
    /\ contacts \in TablesOver(Cids, Segments)
    /\ sales \in TablesOver(SalesIds, {r \in SalesRows : r.item_sid \in CatalogItems})
    /\ sku = CatalogItems
    /\ templates = {}
    /\ campaign_metrics = <<>>
    /\ answer = NoAnswer

ProfileNext ==
    \E cid_start \in Cids, cid_end \in Cids : GetUserGroupProfile(cid_start, cid_end)

ProfileSpec == ProfileInit /\ [][ProfileNext]_vars


\* ------------------------------------------------- campaign performance
TemplateIds == 1..MaxTemplates
\* The event types the query counts; events of other types change no count.
EventTypes == {"DELIVERED", "CLICKED"}
EventCounts == [EventTypes -> 0..MaxEvents]

\* The quotient without the CASE around it: over no delivered event it
\* divides by zero (den = 0).
SuccessRate_Unguarded(delivered, clicked) == [num |-> clicked, den |-> delivered]

\* CASE WHEN delivered = 0 THEN 0 ELSE clicked * 1.0 / delivered END, as the
\* fraction num/den.
SuccessRate(delivered, clicked) ==
    IF delivered = 0 THEN [num |-> 0, den |-> 1]
    ELSE [num |-> clicked, den |-> delivered]

\* COUNT(*) FILTER (WHERE cm.event_type = type) over the rows templates LEFT
\* JOIN campaign_metrics gives template t: its events, or one row of NULLs.
EventCount(t, type) ==
    IF t \in DOMAIN campaign_metrics THEN campaign_metrics[t][type] ELSE 0

\* The rows of get_campaign_performance: one for each template.
CampaignRows ==
    { [template_id |-> t,
       delivered |-> EventCount(t, "DELIVERED"),
       clicked |-> EventCount(t, "CLICKED"),
       success_rate |-> SuccessRate(EventCount(t, "DELIVERED"), EventCount(t, "CLICKED"))]
      : t \in templates }

Range(s) == {s[i] : i \in DOMAIN s}

\* The orders a set of rows can come in.
OrdersOf(S) ==
    {s \in [1..Cardinality(S) -> S] : \A i, j \in DOMAIN s : i # j => s[i] # s[j]}

\* get_campaign_performance(), collected: GROUP BY returns its rows in no
\* particular order.
GetCampaignPerformance ==
    /\ answer' \in {[kind |-> "performance", rows |-> s] : s \in OrdersOf(CampaignRows)}
    /\ UNCHANGED <<contacts, sales, sku, templates, campaign_metrics>>
    /\ UNCHANGED <<dispatcherVars, storeVars>>

\* a >= b, for fractions.
RateAtLeast(a, b) == a.num * b.den >= b.num * a.den

\* Sorted with the lowest rate first.
IsSorted_Ascending(s) ==
    \A i, j \in DOMAIN s : i < j => RateAtLeast(s[j].success_rate, s[i].success_rate)

\* df.sort("success_rate", descending=True): the highest rate first; rows of
\* equal rate in any order.
IsSorted(s) ==
    \A i, j \in DOMAIN s : i < j => RateAtLeast(s[i].success_rate, s[j].success_rate)

\* df.head(n)
Head_(s, n) == SubSeq(s, 1, IF Len(s) < n THEN Len(s) ELSE n)

\* generate_campaign, from the collect of the campaign performance to the
\* rows it builds the prompt from.
TopCampaigns ==
    /\ answer.kind = "performance"
    /\ IF answer.rows = <<>>
       THEN answer' = [kind |-> "no_history", error |-> "RuntimeError"]
       ELSE answer' \in {[kind |-> "leaderboard", rows |-> Head_(s, LeaderboardSize)]
                            : s \in {p \in OrdersOf(Range(answer.rows)) : IsSorted(p)}}
    /\ UNCHANGED <<contacts, sales, sku, templates, campaign_metrics>>
    /\ UNCHANGED <<dispatcherVars, storeVars>>

\* The engine's tables before the campaign performance is asked for.
CampaignInit ==
    /\ DispatcherInit
    /\ StoreInit
    /\ files = [n \in CsvNames |-> Missing]
    /\ contacts = <<>>
    /\ sales = <<>>
    /\ sku = {}
    /\ templates \in SUBSET TemplateIds
    /\ campaign_metrics \in TablesOver(TemplateIds, EventCounts)
    /\ answer = NoAnswer

CampaignNext ==
    \/ GetCampaignPerformance
    \/ TopCampaigns

CampaignSpec == CampaignInit /\ [][CampaignNext]_vars

\* ------------------------------------------------------------- the endpoint
\* While the endpoint is looked at by itself no engine is constructed and the
\* data directory is empty.
Init ==
    /\ DispatcherInit
    /\ StoreInit
    /\ files = [n \in CsvNames |-> Missing]
    /\ NoQueries

Next ==
    \/ \E req \in Requests : Receive(req)
    \/ NormalizeExplicit
    \/ NormalizeFallback
    \/ \E tr \in TriageResults : ClassifyReturns(tr)
    \/ \E e \in ClassifierErrors : ClassifyRaises(e)
    \/ \E fetch \in FetchOutcomes, llm \in LlmOutcomes : Dispatch(fetch, llm)
    \/ Respond
    \/ Fail
    \/ Return

Spec == Init /\ [][Next]_vars

\* The steps process_request takes by itself once a request has arrived.
Progress ==
    \/ NormalizeExplicit
    \/ NormalizeFallback
    \/ \E tr \in TriageResults : ClassifyReturns(tr)
    \/ \E e \in ClassifierErrors : ClassifyRaises(e)
    \/ \E fetch \in FetchOutcomes, llm \in LlmOutcomes : Dispatch(fetch, llm)
    \/ Respond
    \/ Fail

\* The requests that carry no handler payload beyond user_id: they take every
\* path through process_request.
ShortRequests == DictsOver({"agent_type", "query", "user_id"})

FairNext ==
    \/ \E req \in ShortRequests : Receive(req)
    \/ Progress
    \/ Return

\* The interpreter keeps running the coroutine, and every call it makes to the
\* classifier, the data engine or the generator returns or raises in the end.
FairSpec == Init /\ [][FairNext]_vars /\ WF_vars(Progress)

\* ================================================================== claims
\* The routing decision exists and has been read (Step 2 has run).
Dispatched == pc \in {"returned", "except"} \cup Terminal /\ agent_type # ""
\* The request named its route itself.
Explicit == Has(raw, "agent_type")
\* The parameters the routing decision carried, before reconciliation.
Extracted == triage_result.extracted_params

\* C1: a request that carries an explicit agent_type never has the classifier
\* called for it, and its routing decision's confidence is 1.0 from the
\* decision to the response, whatever else (a query included) it carries.
C1_ExplicitSkipsClassifier ==
    (Explicit /\ pc \notin {"idle", "received"}) =>
        /\ "classifier" \notin Called
        /\ triage_result.confidence = ExplicitConfidence
        /\ Dispatched => triage_confidence = ExplicitConfidence
        /\ pc = "completed" => response.triage_confidence = ExplicitConfidence

C1_Witness ==
    /\ Explicit
    /\ Has(raw, "query")
    /\ pc = "completed"
    /\ response.triage_confidence = ExplicitConfidence

\* C2: a request with a user_id, no query and no agent_type is routed to
\* vibe_report and the dict handed to the handler has that user_id.
C2_DefaultRouteIsVibe ==
    (/\ Dispatched
     /\ ~Explicit
     /\ ~Has(raw, "query")
     /\ Has(raw, "user_id")
     /\ ~Falsy(raw["user_id"])) =>
        /\ agent_type = "vibe_report"
        /\ invoked = "vibe_report"
        /\ Has(extracted_params, "user_id")
        /\ extracted_params["user_id"] = raw["user_id"]

\* The identifier fields of a request.
IdentifierKeys == {"user_id", "contact_ids"}
\* A handler call was made with extracted_params as its argument.
HandlerCalled == Dispatched /\ invoked # "none"
\* The raw request has key k and the routing decision's parameters do not.
OnlyRaw(k) == Has(raw, k) /\ ~Has(Extracted, k)
\* The dict handed to the handler has key k with the raw request's value.
KeepsRaw(k) == Has(extracted_params, k) /\ extracted_params[k] = raw[k]

\* C3 as stated: every identifier (user_id, contact_ids) that the raw request
\* has and the extracted parameters lack reaches the handler with the raw
\* value, whichever route was selected.
C3_MergeNeverDrop_AsStated ==
    (HandlerCalled /\ pc = "completed") =>
        \A k \in IdentifierKeys : OnlyRaw(k) => KeepsRaw(k)

\* C3 amended: a user_id that the raw request has and the extracted parameters
\* lack reaches the handler with the raw value on every route; contact_ids
\* does so on the brand_voice route.
C3_MergeNeverDrop ==
    HandlerCalled =>
        /\ OnlyRaw("user_id") => KeepsRaw("user_id")
        /\ (invoked = "brand_voice" /\ OnlyRaw("contact_ids")) => KeepsRaw("contact_ids")

C3_Witness ==
    /\ HandlerCalled
    /\ ~Explicit
    /\ invoked = "smart_receipt"
    /\ OnlyRaw("user_id")
    /\ KeepsRaw("user_id")
    /\ pc = "completed"

\* C4: every key of the routing decision's extracted parameters reaches the
\* handler with the extracted value, also when the raw request has another
\* value for that key, contact_ids on the brand_voice route included.
C4_ExtractedTakesPrecedence ==
    HandlerCalled =>
        \A k \in DOMAIN Extracted :
            Has(extracted_params, k) /\ extracted_params[k] = Extracted[k]

MergedKeys(a) == IF a = "brand_voice" THEN {"user_id", "contact_ids"} ELSE {"user_id"}

ClientError ==
    /\ pc = "rejected"
    /\ ~response.success
    /\ response.status_code = HTTP_400_BAD_REQUEST
\* The response is a server failure (a 500).
ServerError ==
    /\ pc = "failed"
    /\ ~response.success
    /\ response.status_code = HTTP_500_INTERNAL_SERVER_ERROR

\* C6: a routing decision whose agent_type is none of vibe_report, brand_voice,
\* smart_receipt ends the request as a client (400) failure, and no handler and
\* no collaborator of a handler is called for it.
C6_UnknownRouteRejected ==
    (Dispatched /\ agent_type \notin KnownAgents) =>
        /\ invoked = "none"
        /\ Called \subseteq {"classifier"}
        /\ raised = "ValueError"
        /\ pc \in Terminal => ClientError

C6_Witness ==
    /\ Dispatched
    /\ agent_type \notin KnownAgents
    /\ "classifier" \in Called
    /\ ClientError

\* C7: a request on the vibe_report route whose parameters have no user_id
\* ends as a client (400) failure, not a server (500) failure.
C7_VibeMissingUserIsClientError ==
    (/\ Dispatched
     /\ pc \in Terminal
     /\ agent_type = "vibe_report"
     /\ ~Has(extracted_params, "user_id")) => ClientError

\* C8: a request on the brand_voice route is a validation (400) failure exactly
\* when its parameters have neither campaign_texts nor contact_ids; one with
\* campaign_texts and no contact_ids does not fail for a missing parameter.
C8_BrandVoiceNeedsTextsOrContacts ==
    (Dispatched /\ pc \in Terminal /\ agent_type = "brand_voice") =>
        /\ ClientError <=>
              ~(Has(extracted_params, "campaign_texts") \/ Has(extracted_params, "contact_ids"))
        /\ Has(extracted_params, "campaign_texts") => raised # "KeyError"

\* No collaborator's call failed in this request.
CollaboratorsFine ==
    \A i \in DOMAIN calls :
        calls[i].to \in KnownAgents \/ calls[i].outcome \in {"returns", "empty", "rows", "ok"}

\* C9: a request on the smart_receipt route whose parameters lack user_id or
\* lack current_basket_items ends as a client (400) failure and the generator
\* is not called for it (checked here on the requests in which every
\* collaborator that is called answers).
C9_SmartReceiptNeedsUserAndBasket ==
    (/\ Dispatched
     /\ pc \in Terminal
     /\ agent_type = "smart_receipt"
     /\ CollaboratorsFine
     /\ \/ ~Has(extracted_params, "user_id")
        \/ ~Has(extracted_params, "current_basket_items")) =>
        /\ ClientError
        /\ "llm" \notin Called

\* C10: a request whose handler's data fetch failed ends as a server (500)
\* failure; no response says success = true for it.
C10_HandlerFailureIsServerError ==
    (/\ Dispatched
     /\ pc \in Terminal
     /\ invoked # "none"
     /\ "data_engine" \in FailedCalls) => ServerError

\* C11: a request whose classifier call failed, whatever the class of the
\* error (a ValueError such as an output-parse error included), ends as a
\* server (500) failure: never a client (400) failure, never a success.
C11_ClassifierFailureIsServerError ==
    (pc \in Terminal /\ "classifier" \in FailedCalls) => ServerError

\* The number of calls made so far in this request to one of the callees in S.
CallsTo(S) == Cardinality({i \in DOMAIN calls : calls[i].to \in S})

\* C12: nothing is retried: within one request the classifier is called at
\* most once and at most one handler call is made, also when that call failed.
C12_NoRetry ==
    /\ CallsTo({"classifier"}) <= 1
    /\ CallsTo(KnownAgents) <= 1

C12_Witness ==
    /\ pc = "failed"
    /\ CallsTo({"classifier"}) = 1
    /\ CallsTo(KnownAgents) = 1
    /\ invoked \in FailedCalls

\* The steps of one request in the order process_request takes them: received,
\* normalized (classify), routed, dispatched (returned or except), then one of
\* completed, rejected, failed; a terminal state is only left for the next
\* request.
StateOrder ==
    {<<"idle", "received">>, <<"received", "classify">>, <<"received", "routed">>,
     <<"classify", "routed">>, <<"classify", "except">>,
     <<"routed", "returned">>, <<"routed", "except">>,
     <<"returned", "completed">>, <<"except", "rejected">>, <<"except", "failed">>}
        \cup {<<t, "idle">> : t \in Terminal}

\* A routing decision exists.
Decided == triage_result # NoTriage /\ pc \in {"routed", "returned", "except"} \cup Terminal

\* C13: a request moves through its states only in the order received,
\* normalized, routed, dispatched, completed or to a terminal failure; a handler
\* call is made only in the routed state, with a routing decision in hand; a
\* success response is built only after the handler returned; and from a
\* terminal state there is no further classifier or handler call, only the
\* end of the request.
C13_StatesInOrder ==
    [][/\ <<pc, pc'>> \in StateOrder
       /\ CallsTo(KnownAgents)' > CallsTo(KnownAgents) => (pc = "routed" /\ Decided)
       /\ CallsTo({"classifier"})' > CallsTo({"classifier"}) => pc = "classify"
       /\ pc' = "completed" =>
             /\ pc = "returned"
             /\ \E i \in DOMAIN calls : calls[i] = Call(invoked, "returns")
             /\ response'.success
       /\ pc \in Terminal => (pc' = "idle" /\ calls' = <<>>)]_vars

C13_Witness ==
    /\ pc = "completed"
    /\ Decided
    /\ "classifier" \in Called
    /\ Call(invoked, "returns") \in {calls[i] : i \in DOMAIN calls}
    /\ response.success

\* The response is a success.
Success == pc = "completed" /\ response.success

\* C14: every request that has arrived reaches a terminal state, and in a
\* terminal state its outcome is exactly one of success, client failure and
\* server failure (given that every external call returns or raises).
C14_ReachesOneOutcome ==
    /\ (pc = "received") ~> (pc \in Terminal)
    /\ [](pc \in Terminal =>
            Cardinality({o \in {"success", "client", "server"} :
                           \/ o = "success" /\ Success
                           \/ o = "client" /\ ClientError
                           \/ o = "server" /\ ServerError}) = 1)

C14_Witness ==
    /\ pc = "completed"
    /\ Success
    /\ {"classifier", "data_engine", "llm"} \subseteq Called
    /\ FailedCalls = {}

\* The success shape: success = true, the label of the handler that ran, that
\* handler's result and the confidence of the routing decision.
SuccessShape ==
    /\ {"success", "agent_type", "result", "triage_confidence"} \subseteq DOMAIN response
    /\ ~Has(response, "error")
    /\ response.success
    /\ response.agent_type = invoked
    /\ response.agent_type \in KnownAgents
    /\ Call(invoked, "returns") \in {calls[i] : i \in DOMAIN calls}
    /\ response.result = result
    /\ response.triage_confidence = triage_result.confidence

\* The failure shape: success = false and the message of the error.
FailureShape ==
    /\ {"success", "error"} \subseteq DOMAIN response
    /\ ~Has(response, "result")
    /\ ~response.success
    /\ response.error = raised
    /\ raised # "none"

\* C15: every response has the success shape or the failure shape, and a
\* response with success = true names one of the three known routes, the one
\* whose handler ran.
C15_ResponseShapes ==
    pc \in Terminal =>
        /\ SuccessShape \/ FailureShape
        /\ response.success => response.agent_type \in KnownAgents

C15_Witness ==
    /\ pc = "completed"
    /\ SuccessShape
    /\ Explicit
    /\ response.agent_type = "smart_receipt"

\* The engine's load has passed the existence test and has not returned.
Registering(e) ==
    ph[e] \in {"transactions", "building_transactions", "customers", "building_customers"}

\* C16: a load with a source file missing fails before any table is created:
\* no load with a missing source gets as far as its first statement, after a
\* failed load the engine's database has the tables it had when the load
\* began, and a failed first load leaves a database with no table.
C16_LoadFailsFast ==
    \A e \in Engines :
        /\ Registering(e) => SourcesExist(files)
        /\ outcome[e] = "failed" => tables[duckdb_conn[e]] = before[e]
        /\ ph[e] = "dead" => tables[duckdb_conn[e]] = NoTables

C16_Witness ==
    /\ outcome["a"] = "failed"
    /\ ph["a"] = "ready"
    /\ files["customers"] = Missing
    /\ tables["a"]["transactions"] \in Contents
    /\ files["transactions"] \in Contents \ {tables["a"]["transactions"]}

\* C17: while a table is being replaced by a reload, no reader of that table
\* name gets a half-replaced table: every frame made holds the rows of a
\* whole table, and whenever an engine is free to query, no name of its
\* database is in the middle of a replacement (each engine's database is its
\* own, and its loads and queries run one after the other in its thread).
C17_NoHalfReplacedRead ==
    \A e \in Engines :
        /\ plan[e].arrow # Half
        /\ ph[e] = "ready" => \A t \in TableNames : tables[duckdb_conn[e]][t] # Half

C17_Witness ==
    /\ reloading["a"]
    /\ ph["a"] = "building_transactions"
    /\ tables["a"]["transactions"] = Half
    /\ plan["b"].source = "transactions"
    /\ plan["b"].overlap
    /\ plan["b"].arrow \in Contents

\* The engine has a frame.
HasPlan(e) == plan[e] # NoPlan

\* C18 as stated: making a frame reads no row of any table; a frame that has
\* not been collected holds no rows.
C18_PlanTouchesNoData_AsStated ==
    \A e \in Engines : (HasPlan(e) /\ collected[e] = <<>>) => plan[e].arrow \notin Contents

\* C18 amended: the query's rows are read when the frame is made (a frame
\* holds the rows of a whole table from the start), and collect returns those
\* rows; what is deferred to collect is the frame operations added afterwards
\* (the join and the derived columns of get_user_analytics_pipeline).
C18_PlanTouchesNoData ==
    \A e \in Engines :
        HasPlan(e) =>
            /\ plan[e].arrow \in Contents
            /\ \A i \in DOMAIN collected[e] :
                  /\ collected[e][i].rows = plan[e].arrow
                  /\ collected[e][i].derived = plan[e].pending

C18_Witness ==
    /\ HasPlan("a")
    /\ plan["a"].pending
    /\ plan["a"].arrow \in Contents
    /\ collected["a"] = <<>>

\* C19 as stated: every collect returns what the source table holds when the
\* collect is made, also when the table was reloaded after the frame was made.
C19_CollectSeesCurrentStore_AsStated ==
    \A e \in Engines : \A i \in DOMAIN collected[e] :
        collected[e][i].rows = collected[e][i].store

\* This step makes a frame for the engine.
BuiltNow(e) == plan'[e] # plan[e] /\ plan'[e] # NoPlan /\ ~plan'[e].pending
\* This step is a collect of the engine's frame.
CollectedNow(e) == Len(collected'[e]) > Len(collected[e])

\* C19 amended: nothing is kept from one frame to the next: every frame is
\* made of what its source table holds when it is made.  A collect does not
\* run the query again: it returns the rows the frame was made of, whatever
\* the table holds by then.
C19_CollectSeesCurrentStore ==
    [][\A e \in Engines :
          /\ BuiltNow(e) => plan'[e].arrow = tables[duckdb_conn[e]][plan'[e].source]
          /\ CollectedNow(e) =>
                collected'[e][Len(collected'[e])].rows = plan[e].arrow]_vars

C19_Witness ==
    /\ HasPlan("a")
    /\ collected["a"] # <<>>
    /\ collected["a"][1].store \in Contents \ {collected["a"][1].rows}
    /\ collected["a"][1].rows = plan["a"].arrow

HandlerCalls == SelectSeq(calls, LAMBDA c : c.to \in KnownAgents)

\* C29: in one request at most one handler call is made, and it is to the
\* handler of the routing decision's route label: no call for a label that is
\* no known route, otherwise the one call goes to the handler of that label;
\* and the route label of a success response is that label.
C29_OnlyTheRoutedHandler ==
    Dispatched =>
        /\ Len(HandlerCalls) <= 1
        /\ \A i \in DOMAIN HandlerCalls : HandlerCalls[i].to = triage_result.agent_type
        /\ invoked \in {"none", triage_result.agent_type}
        /\ Success => (response.agent_type = triage_result.agent_type /\ invoked = response.agent_type)

C29_Witness ==
    /\ Success
    /\ ~Explicit
    /\ triage_result.agent_type = "vibe_report"
    /\ HandlerCalls = <<Call("vibe_report", "returns")>>
    /\ response.agent_type = "vibe_report"

\* C30: the default query is added exactly when the request has no
\* agent_type, no query and a user_id; a query the caller sent is never
\* replaced; a request with neither query nor user_id goes to the classifier
\* as it came; and the user_id a handler gets is the extracted one if the
\* routing decision has one, else the raw request's.
C30_DefaultQueryFrame ==
    /\ pc \notin {"idle", "received"} =>
          /\ request =
                IF ~Explicit /\ ~Has(raw, "query") /\ Has(raw, "user_id")
                THEN Put(raw, "query", DefaultQuery)
                ELSE raw
          /\ Has(raw, "query") => request["query"] = raw["query"]
    /\ (pc = "classify" /\ ~Has(raw, "query") /\ ~Has(raw, "user_id")) => request = raw
    /\ (pc \notin {"idle", "received"} /\ ~Explicit /\ ~Has(raw, "query") /\ ~Has(raw, "user_id")) =>
          pc = "classify" \/ "classifier" \in Called
    /\ HandlerCalled =>
          /\ Has(Extracted, "user_id") =>
                (Has(extracted_params, "user_id") /\ extracted_params["user_id"] = Extracted["user_id"])
          /\ (~Has(Extracted, "user_id") /\ Has(raw, "user_id")) => KeepsRaw("user_id")
          /\ (~Has(Extracted, "user_id") /\ ~Has(raw, "user_id")) => ~Has(extracted_params, "user_id")

C30_Witness ==
    /\ HandlerCalled
    /\ ~Explicit
    /\ ~Has(raw, "query")
    /\ Has(raw, "user_id")
    /\ request["query"] = DefaultQuery
    /\ Has(Extracted, "user_id")
    /\ Extracted["user_id"] # raw["user_id"]
    /\ extracted_params["user_id"] = Extracted["user_id"]

\* C27: once an engine's load has succeeded, every table its queries read
\* (sales, contacts, sku, campaign_metrics, templates, contacts_loyalty) is
\* in its database.
C27_QueriedTablesRegistered ==
    \A e \in Engines :
        (ph[e] = "ready" /\ outcome[e] = "loaded") =>
            \A t \in QueriedTables : tables[duckdb_conn[e]][t] # Unbound

\* The last query was the transaction digest of a customer id that the contacts
\* table does not hold.
DigestOfUnknown ==
    /\ answer.kind = "digest"
    /\ answer.cid \notin DOMAIN contacts

\* C21 as stated: the transaction digest of a customer id that is not in
\* contacts is empty, whatever the sales table holds.
C21_UnknownCustomerDigestEmpty_AsStated ==
    DigestOfUnknown => answer.rows = {}

\* C21: the transaction digest of a customer id that is not in contacts holds
\* one row for each sales row of that id, with the customer's columns NULL; it
\* is empty exactly when sales has no row of that id.
C21_UnknownCustomerDigest ==
    DigestOfUnknown =>
        /\ {r.sales_id : r \in answer.rows} = {i \in DOMAIN sales : sales[i].cid = answer.cid}
        /\ \A r \in answer.rows : r.gender = NullText /\ r.cid = answer.cid
        /\ answer.rows = {} <=> (\A i \in DOMAIN sales : sales[i].cid # answer.cid)

C21_Witness ==
    /\ DigestOfUnknown
    /\ answer.rows # {}
    /\ \E i \in DOMAIN sales : sales[i].cid # answer.cid

\* C26: the transaction digest of a customer holds exactly one row for each
\* sales row of that customer, also for the rows whose item has no catalog
\* entry (their product columns are NULL), and each row's gross_spend is its
\* own quantity times its own sales_price, its discount_value its own quantity
\* times its own discount.
C26_DigestRowsAndDerivedColumns ==
    answer.kind = "digest" =>
        /\ {r.sales_id : r \in answer.rows} = {i \in DOMAIN sales : sales[i].cid = answer.cid}
        /\ Cardinality(answer.rows) = Cardinality({i \in DOMAIN sales : sales[i].cid = answer.cid})
        /\ \A r \in answer.rows :
              /\ r.quantity = sales[r.sales_id].quantity
              /\ r.sales_price = sales[r.sales_id].sales_price
              /\ r.discount = sales[r.sales_id].discount
              /\ r.gross_spend = sales[r.sales_id].quantity * sales[r.sales_id].sales_price
              /\ r.discount_value = sales[r.sales_id].quantity * sales[r.sales_id].discount
              /\ r.description = Null <=> sales[r.sales_id].item_sid \notin sku

C26_Witness ==
    /\ answer.kind = "digest"
    /\ \E r, q \in answer.rows :
          /\ r.description = Null
          /\ q.description # Null
          /\ r.gross_spend # q.gross_spend
          /\ r.discount_value # r.gross_spend

\* The last query was the group profile of a range.
GroupProfileAsked == answer.kind \in {"profile", "error"}

\* The contacts whose id lies in the range asked for, both ends included.
ContactsInRange ==
    {c \in DOMAIN contacts : answer.cid_start <= c /\ c <= answer.cid_end}

\* C22: the group profile raises the empty-group error exactly when no
\* customer id of contacts lies in the range, both ends included; no profile
\* is returned then.
C22_EmptyGroupError ==
    GroupProfileAsked =>
        ((answer.kind = "error" /\ answer.error = "RuntimeError") <=> ContactsInRange = {})

C22_Witness ==
    /\ GroupProfileAsked
    /\ answer.kind = "error"
    /\ answer.error = "RuntimeError"
    /\ answer.cid_start <= answer.cid_end
    /\ DOMAIN contacts # {}
    /\ DOMAIN sales # {}

\* C23: when exactly one customer of contacts lies in the range, the profile
\* returned has total_users = 1 and avg_spend equal to the average of
\* quantity * sales_price over that customer's own sales rows (to two
\* decimals), however many sales rows the customer has.
C23_SingleCustomerProfile ==
    (answer.kind = "profile" /\ Cardinality(ContactsInRange) = 1) =>
        LET own == {i \in DOMAIN sales : sales[i].cid \in ContactsInRange}
        IN  /\ answer.total_users = 1
            /\ answer.avg_spend = Round2(SumSpend(own), Cardinality(own))

\* C28: the group profile of a range that holds at least one customer of
\* contacts is a profile, never an error, also when no customer of the range
\* has a sales row.
C28_ProfileForEveryNonEmptyRange ==
    (GroupProfileAsked /\ ContactsInRange # {}) => answer.kind = "profile"

\* The events of one type that campaign_metrics holds for a template.
EventsOf(t, type) ==
    IF t \in DOMAIN campaign_metrics THEN campaign_metrics[t][type] ELSE 0

\* C25: the campaign performance has one row for each template; its success
\* rate is the template's clicked events divided by its delivered events, and
\* exactly 0 when it has no delivered event (no event at all, or clicked ones
\* only); the division is never one by zero.
C25_SuccessRate ==
    answer.kind = "performance" =>
        /\ {answer.rows[i].template_id : i \in DOMAIN answer.rows} = templates
        /\ Len(answer.rows) = Cardinality(templates)
        /\ \A i \in DOMAIN answer.rows :
              LET r == answer.rows[i]
                  delivered == EventsOf(r.template_id, "DELIVERED")
                  clicked == EventsOf(r.template_id, "CLICKED")
              IN  /\ r.success_rate.den > 0
                  /\ delivered = 0 => r.success_rate.num = 0
                  /\ delivered > 0 =>
                        r.success_rate.num * delivered = clicked * r.success_rate.den

C25_Witness ==
    /\ answer.kind = "performance"
    /\ \E i, j \in DOMAIN answer.rows :
          /\ EventsOf(answer.rows[i].template_id, "DELIVERED") = 0
          /\ EventsOf(answer.rows[i].template_id, "CLICKED") > 0
          /\ answer.rows[i].success_rate.num = 0
          /\ answer.rows[j].template_id \notin DOMAIN campaign_metrics
          /\ answer.rows[j].success_rate.num = 0

\* Rates a and b are equal.
SameRate(a, b) == a.num * b.den = b.num * a.den

====
